---- MODULE Spec2Model ----
(***************************************************************************)
(* Model of the ink-mini-code-editor TextInput widget                      *)
(* (src/source/index.tsx): the cursor/edit state machine driven by key     *)
(* events, the reconciliation effect, the suggestion resolver and the      *)
(* segment builder createSegments.                                         *)
(*                                                                         *)
(* Strings are sequences of one-character strings.                         *)
(***************************************************************************)
EXTENDS Integers, Sequences, FiniteSets, TLC

VARIABLES
    value,          \* the `value` prop (originalValue), owned by the caller
    cursorOffset,   \* state.cursorOffset
    cursorWidth,    \* state.cursorWidth (the paste width)
    focus,          \* the `focus` prop
    showCursor,     \* the `showCursor` prop
    provider,       \* which getSuggestion prop the caller passed
    fired,          \* callbacks invoked while processing the last event
    last,           \* the last event and the state it was applied to
    leftRun,        \* the run of handled left arrows that just ended here
    outOfBand,      \* the caller has replaced value other than via onChange
    segIn,          \* arguments of a createSegments call
    segCalled,      \* the call has been made
    segments,       \* its result
    mergeIn,        \* argument of a mergeDecorationStyles call
    mergeOut,       \* its result
    renderCfg,      \* the props that only rendering reads
    frame           \* what the last render returned

vars == <<value, cursorOffset, cursorWidth, focus, showCursor, provider,
          fired, last, leftRun, outOfBand, segIn, segCalled, segments,
          mergeIn, mergeOut, renderCfg, frame>>

editorVars == <<value, cursorOffset, cursorWidth, focus, showCursor, provider,
                fired, last, leftRun, outOfBand>>

segVars == <<segIn, segCalled, segments>>

mergeVars == <<mergeIn, mergeOut>>

renderVars == <<renderCfg, frame>>

\* the variables the editor's events leave alone
pureVars == <<segVars, mergeVars, renderVars>>

----------------------------------------------------------------------------
(* Bounds *)

MaxLen == 3         \* longest value the editor is driven to
MaxInput == 2       \* longest input of one key event (a paste)
MaxSet == 2         \* longest value the caller sets out of band
SegMaxLen == 2      \* longest value handed to createSegments

Chars == {"a", "b"}

StringsUpTo(n) == UNION {[1..k -> Chars] : k \in 0..n}

Values == StringsUpTo(MaxLen)

Inputs == StringsUpTo(MaxInput) \ {<<>>}

SetValues == StringsUpTo(MaxSet)

Min(a, b) == IF a < b THEN a ELSE b

Max(a, b) == IF a > b THEN a ELSE b

----------------------------------------------------------------------------
(* JavaScript string primitives used by the widget *)

\* String.prototype.slice(from, to): negative indices count from the end,
\* indices are clamped into [0, length], an empty range gives ''.
Slice(s, from, to) ==
    LET n == Len(s)
        a == IF from < 0 THEN Max(n + from, 0) ELSE Min(from, n)
        b == IF to < 0 THEN Max(n + to, 0) ELSE Min(to, n)
    IN  IF a >= b THEN <<>> ELSE SubSeq(s, a + 1, b)

\* String.prototype.startsWith
StartsWith(s, prefix) ==
    /\ Len(prefix) <= Len(s)
    /\ SubSeq(s, 1, Len(prefix)) = prefix

\* the value `undefined` of a `string | undefined`
Undefined == <<"undefined">>

\* truthiness of a `string | undefined`: undefined and '' are falsy
Truthy(s) == s # Undefined /\ s # <<>>

----------------------------------------------------------------------------
(* The caller: suggestion providers and the controlled-value wiring *)

\* the command list a provider searches, in order
commands == << <<"a", "b">>, <<"b", "a", "a">> >>

RECURSIVE find(_, _, _)
\* Array.prototype.find(cmd => cmd.startsWith(v) && cmd !== v) from index i
find(list, v, i) ==
    IF i > Len(list) THEN Undefined
    ELSE IF StartsWith(list[i], v) /\ list[i] # v THEN list[i]
    ELSE find(list, v, i + 1)

Providers == {"none", "find", "const", "empty"}

\* the getSuggestion prop: "find" searches the command list, "const" always
\* returns the same string whatever the value is, "empty" always returns ''
getSuggestion(p, v) ==
    IF p = "find" THEN find(commands, v, 1)
    ELSE IF p = "const" THEN <<"a", "b">>
    ELSE IF p = "empty" THEN <<>>
    ELSE Undefined

----------------------------------------------------------------------------
(* The reconciliation effect *)

\* useEffect(() => setState(previousState => ...), [originalValue, focus,
\* showCursor]): the updater applied to the state of the render it follows
useEffect(previousState, newValue, foc, show) ==
    IF ~foc \/ ~show THEN previousState
    ELSE IF previousState.cursorOffset > Len(newValue) - 1
         THEN [cursorOffset |-> Len(newValue), cursorWidth |-> 0]
         ELSE previousState

\* faulty variant of ghostText: the suggestion is not tested for the prefix
ghostTextUnprefixed(val, offset, foc, p) ==
    IF p # "none" /\ foc /\ offset = Len(val)
    THEN LET suggestion == getSuggestion(p, val)
         IN  IF /\ Truthy(suggestion)
                /\ suggestion # val
             THEN Slice(suggestion, Len(val), Len(suggestion))
             ELSE <<>>
    ELSE <<>>

\* faulty variant of ghostText: the cursor is not tested for the end
ghostTextAnywhere(val, offset, foc, p) ==
    IF p # "none" /\ foc
    THEN LET suggestion == getSuggestion(p, val)
         IN  IF /\ Truthy(suggestion)
                /\ StartsWith(suggestion, val)
                /\ suggestion # val
             THEN Slice(suggestion, Len(val), Len(suggestion))
             ELSE <<>>
    ELSE <<>>

\* the ghost text computed on every render
ghostText(val, offset, foc, p) ==
    IF p # "none" /\ foc /\ offset = Len(val)
    THEN LET suggestion == getSuggestion(p, val)
         IN  IF /\ Truthy(suggestion)
                /\ StartsWith(suggestion, val)
                /\ suggestion # val
             THEN Slice(suggestion, Len(val), Len(suggestion))
             ELSE <<>>
    ELSE <<>>

----------------------------------------------------------------------------
(* The useInput handler, branch by branch.  Each branch returns the        *)
(* handler's locals: nextCursorOffset, nextValue, nextCursorWidth, and the *)
(* arguments onSuggestionAccept was called with.                           *)

\* faulty variant of locals: nextCursorWidth starts from the stored width
localsKeepWidth(offset, orig) ==
    [nextCursorOffset |-> offset, nextValue |-> orig,
     nextCursorWidth |-> cursorWidth, accepted |-> <<>>]

locals(offset, orig) ==
    [nextCursorOffset |-> offset, nextValue |-> orig,
     nextCursorWidth |-> 0, accepted |-> <<>>]

ignoredKeys == {"upArrow", "downArrow", "ctrlC", "tab", "shiftTab"}

leftArrow(offset, orig, show) ==
    IF show
    THEN [locals(offset, orig) EXCEPT !.nextCursorOffset = offset - 1]
    ELSE locals(offset, orig)

rightArrow(offset, orig, show, p) ==
    IF show
    THEN IF offset = Len(orig) /\ p # "none"
         THEN LET suggestion == getSuggestion(p, orig)
              IN  IF /\ Truthy(suggestion)
                     /\ StartsWith(suggestion, orig)
                     /\ suggestion # orig
                  THEN [nextCursorOffset |-> Len(suggestion),
                        nextValue |-> suggestion,
                        nextCursorWidth |-> 0,
                        accepted |-> <<suggestion>>]
                  ELSE [locals(offset, orig)
                            EXCEPT !.nextCursorOffset = offset + 1]
         ELSE [locals(offset, orig) EXCEPT !.nextCursorOffset = offset + 1]
    ELSE locals(offset, orig)

\* faulty variant of backspace: the guard admits offset 0
backspaceAtZero(offset, orig) ==
    IF offset >= 0
    THEN [locals(offset, orig) EXCEPT
            !.nextValue = Slice(orig, 0, offset - 1)
                            \o Slice(orig, offset, Len(orig)),
            !.nextCursorOffset = offset - 1]
    ELSE locals(offset, orig)

backspace(offset, orig) ==
    IF offset > 0
    THEN [locals(offset, orig) EXCEPT
            !.nextValue = Slice(orig, 0, offset - 1)
                            \o Slice(orig, offset, Len(orig)),
            !.nextCursorOffset = offset - 1]
    ELSE locals(offset, orig)

insert(offset, orig, input) ==
    [nextValue |-> Slice(orig, 0, offset) \o input
                     \o Slice(orig, offset, Len(orig)),
     nextCursorOffset |-> offset + Len(input),
     nextCursorWidth |-> IF Len(input) > 1 THEN Len(input) ELSE 0,
     accepted |-> <<>>]

\* the two `if` statements before setState: both test cursorOffset, the
\* offset the handler started from
clamp(nextCursorOffset, offset, orig) ==
    LET low == IF offset < 0 THEN 0 ELSE nextCursorOffset
    IN  IF offset > Len(orig) THEN Len(orig) ELSE low

----------------------------------------------------------------------------
(* The segment builder *)

RECURSIVE sort(_)
\* [...set].sort((a, b) => a - b)
sort(S) ==
    IF S = {} THEN <<>>
    ELSE LET m == CHOOSE x \in S : \A y \in S : x <= y
         IN  <<m>> \o sort(S \ {m})

clampedDecorations(val, decorations) ==
    [i \in 1..Len(decorations) |->
        [decorations[i] EXCEPT
            !.start = Max(0, Min(decorations[i].start, Len(val))),
            !.end = Max(0, Min(decorations[i].end, Len(val)))]]

\* faulty variant of splitPoints: the cursor splits the text also when it
\* is not shown
splitPointsAlwaysCursor(val, offset, decorations, show) ==
    LET clamped == clampedDecorations(val, decorations)
    IN  {0, Len(val)}
        \cup {offset} \cup (IF offset < Len(val) THEN {offset + 1} ELSE {})
        \cup UNION {IF clamped[i].start < clamped[i].end
                    THEN {clamped[i].start, clamped[i].end}
                    ELSE {} : i \in 1..Len(clamped)}

splitPoints(val, offset, decorations, show) ==
    LET clamped == clampedDecorations(val, decorations)
    IN  {0, Len(val)}
        \cup (IF show
              THEN {offset} \cup (IF offset < Len(val) THEN {offset + 1}
                                  ELSE {})
              ELSE {})
        \cup UNION {IF clamped[i].start < clamped[i].end
                    THEN {clamped[i].start, clamped[i].end}
                    ELSE {} : i \in 1..Len(clamped)}

\* faulty variant of points: the points are not filtered
pointsUnfiltered(val, offset, decorations, show) ==
    sort(splitPoints(val, offset, decorations, show))

points(val, offset, decorations, show) ==
    LET InRange(p) == p >= 0 /\ p <= Len(val)
    IN  SelectSeq(sort(splitPoints(val, offset, decorations, show)), InRange)

\* faulty variant of createSegments: isCursor does not test showCursor
createSegmentsAlwaysCursor(val, offset, decorations, show) ==
    LET clamped == clampedDecorations(val, decorations)
        pts == points(val, offset, decorations, show)
    IN  [i \in 1..(Len(pts) - 1) |->
            LET start == pts[i]
                end == pts[i + 1]
                Overlaps(dec) == dec.start < end /\ dec.end > start
            IN  [text |-> Slice(val, start, end),
                 start |-> start,
                 end |-> end,
                 isCursor |-> start = offset /\ end = offset + 1,
                 decorations |-> SelectSeq(clamped, Overlaps)]]

createSegments(val, offset, decorations, show) ==
    LET clamped == clampedDecorations(val, decorations)
        pts == points(val, offset, decorations, show)
    IN  [i \in 1..(Len(pts) - 1) |->
            LET start == pts[i]
                end == pts[i + 1]
                Overlaps(dec) == dec.start < end /\ dec.end > start
            IN  [text |-> Slice(val, start, end),
                 start |-> start,
                 end |-> end,
                 isCursor |-> show /\ start = offset /\ end = offset + 1,
                 decorations |-> SelectSeq(clamped, Overlaps)]]

----------------------------------------------------------------------------
(* Decoration styles *)

\* the value `undefined` of a style object
NoStyle == [undefined |-> "true"]

decorationStyles ==
    [error |-> [color |-> "red", underline |-> "true"],
     warning |-> [color |-> "yellow", underline |-> "true"],
     info |-> [color |-> "blue", underline |-> "true"],
     highlight |-> [backgroundColor |-> "yellow"]]

\* faulty variant of assign: fields the target already has are kept
assignKeepTarget(target, source) ==
    [k \in (DOMAIN target) \cup (DOMAIN source) |->
        IF k \in DOMAIN target THEN target[k] ELSE source[k]]

\* Object.assign(target, source)
assign(target, source) ==
    [k \in (DOMAIN target) \cup (DOMAIN source) |->
        IF k \in DOMAIN source THEN source[k] ELSE target[k]]

RECURSIVE mergeFrom(_, _, _)
\* the loop `for (const dec of decorations)` from index i on
mergeFrom(decorations, i, merged) ==
    IF i > Len(decorations) THEN merged
    ELSE mergeFrom(decorations, i + 1,
                   assign(merged, decorationStyles[decorations[i].style]))

\* starts from `const merged = {}`, the record with no field
mergeDecorationStyles(decorations) ==
    IF Len(decorations) = 0 THEN NoStyle
    ELSE mergeFrom(decorations, 1, <<>>)

----------------------------------------------------------------------------
(* Rendering.  The props that only rendering reads are a record cfg:       *)
(* placeholder, mask, highlightPastedText, language, decorations.          *)

RenderConfigs ==
    [placeholder : {<<>>, <<"p", "q">>},
     mask : {<<>>, <<"*">>},
     highlightPastedText : BOOLEAN,
     language : {"", "sql"},
     decorations : {<<>>, <<[start |-> 0, end |-> 2, style |-> "error"]>>}]

RECURSIVE repeat(_, _)
\* String.prototype.repeat
repeat(str, n) == IF n <= 0 THEN <<>> ELSE str \o repeat(str, n - 1)

\* const value = mask ? mask.repeat(originalValue.length) : originalValue
maskedValue(cfg) ==
    IF cfg.mask # <<>> THEN repeat(cfg.mask, Len(value)) ELSE value

\* a chalk-styled string, one cell per character
cells(text, style) ==
    [i \in 1..Len(text) |-> [char |-> text[i], style |-> style]]

renderedPlaceholder(cfg) ==
    IF showCursor /\ focus
    THEN IF Len(cfg.placeholder) > 0
         THEN cells(<<cfg.placeholder[1]>>, "inverse")
                \o cells(Tail(cfg.placeholder), "grey")
         ELSE cells(<<" ">>, "inverse")
    ELSE cells(cfg.placeholder, "grey")

\* faulty variant of renderedValue: the pasted span is never highlighted
renderedValueNoPaste(cfg) ==
    LET val == maskedValue(cfg)
        text ==
            IF showCursor /\ focus
            THEN (IF Len(val) > 0 THEN <<>> ELSE cells(<<" ">>, "inverse"))
                 \o [i \in 1..Len(val) |->
                        [char |-> val[i],
                         style |->
                            IF i - 1 = cursorOffset
                            THEN "inverse" ELSE "none"]]
                 \o (IF Len(val) > 0 /\ cursorOffset = Len(val)
                     THEN cells(<<" ">>, "inverse") ELSE <<>>)
            ELSE cells(val, "none")
    IN  text \o cells(ghostText(value, cursorOffset, focus, provider), "dim")

renderedValue(cfg) ==
    LET val == maskedValue(cfg)
        cursorActualWidth ==
            IF cfg.highlightPastedText THEN cursorWidth ELSE 0
        text ==
            IF showCursor /\ focus
            THEN (IF Len(val) > 0 THEN <<>> ELSE cells(<<" ">>, "inverse"))
                 \o [i \in 1..Len(val) |->
                        [char |-> val[i],
                         style |->
                            IF /\ i - 1 >= cursorOffset - cursorActualWidth
                               /\ i - 1 <= cursorOffset
                            THEN "inverse" ELSE "none"]]
                 \o (IF Len(val) > 0 /\ cursorOffset = Len(val)
                     THEN cells(<<" ">>, "inverse") ELSE <<>>)
            ELSE cells(val, "none")
    IN  text \o cells(ghostText(value, cursorOffset, focus, provider), "dim")

\* what plain mode prints
displayValue(cfg) ==
    IF cfg.placeholder # <<>>
    THEN IF Len(maskedValue(cfg)) > 0
         THEN renderedValue(cfg)
         ELSE renderedPlaceholder(cfg)
    ELSE renderedValue(cfg)

piece(kind, text, props) == [kind |-> kind, text |-> text, props |-> props]

\* what decorated mode (language set) returns, one piece per element
decorated(cfg) ==
    LET val == maskedValue(cfg)
        ghost == ghostText(value, cursorOffset, focus, provider)
        showGhost == ghost # <<>> /\ focus /\ cursorOffset = Len(val)
        cursorVisible == showCursor /\ focus
        cursorAtEnd == cursorOffset = Len(val)
        segs == createSegments(val, cursorOffset, cfg.decorations,
                               cursorVisible)
    IN  IF Len(val) = 0 /\ cfg.placeholder # <<>>
        THEN IF cursorVisible
             THEN <<piece("placeholder", <<cfg.placeholder[1]>>,
                          [inverse |-> "true"]),
                    piece("placeholder", Tail(cfg.placeholder),
                          [dimColor |-> "true"])>>
             ELSE <<piece("placeholder", cfg.placeholder,
                          [dimColor |-> "true"])>>
        ELSE IF Len(val) = 0
        THEN IF cursorVisible
             THEN <<piece("caret", <<" ">>, [inverse |-> "true"])>>
             ELSE <<>>
        ELSE [i \in 1..Len(segs) |->
                IF segs[i].isCursor
                THEN piece("cursor", segs[i].text, [inverse |-> "true"])
                ELSE IF mergeDecorationStyles(segs[i].decorations) # NoStyle
                THEN piece("decorated", segs[i].text,
                           mergeDecorationStyles(segs[i].decorations))
                ELSE piece("syntax", segs[i].text, NoStyle)]
             \o (IF cursorVisible /\ cursorAtEnd
                 THEN <<piece("caret", <<" ">>, [inverse |-> "true"])>>
                 ELSE <<>>)
             \o (IF showGhost
                 THEN <<piece("ghost", ghost, [dimColor |-> "true"])>>
                 ELSE <<>>)

\* value[i] ?? '' : the character at index i, or the empty string
charAt(val, i) == IF 0 <= i /\ i < Len(val) THEN <<val[i + 1]>> ELSE <<>>

\* what the legacy component (the second copy of TextInput) returns with a
\* language set: text before the cursor, at the cursor, after the cursor
legacyDecorated(cfg) ==
    LET val == maskedValue(cfg)
        ghost == ghostText(value, cursorOffset, focus, provider)
        showGhost == ghost # <<>> /\ focus /\ cursorOffset = Len(val)
        cursorVisible == showCursor /\ focus
        beforeCursor == Slice(val, 0, cursorOffset)
        atCursor == charAt(val, cursorOffset)
        afterCursor == IF atCursor # <<>>
                       THEN Slice(val, cursorOffset + 1, Len(val))
                       ELSE <<>>
        cursorAtEnd == cursorOffset = Len(val)
    IN  IF Len(val) = 0 /\ cfg.placeholder # <<>>
        THEN IF cursorVisible
             THEN <<piece("placeholder", <<cfg.placeholder[1]>>,
                          [inverse |-> "true"]),
                    piece("placeholder", Tail(cfg.placeholder),
                          [dimColor |-> "true"])>>
             ELSE <<piece("placeholder", cfg.placeholder,
                          [dimColor |-> "true"])>>
        ELSE IF Len(val) = 0
        THEN IF cursorVisible
             THEN <<piece("caret", <<" ">>, [inverse |-> "true"])>>
             ELSE <<>>
        ELSE (IF beforeCursor # <<>>
              THEN <<piece("syntax", beforeCursor, NoStyle)>> ELSE <<>>)
             \o (IF cursorVisible
                 THEN <<piece("cursor",
                              IF cursorAtEnd THEN <<" ">> ELSE atCursor,
                              [inverse |-> "true"])>>
                 ELSE <<>>)
             \o (IF ~cursorVisible /\ atCursor # <<>>
                 THEN <<piece("syntax", atCursor, NoStyle)>> ELSE <<>>)
             \o (IF afterCursor # <<>>
                 THEN <<piece("syntax", afterCursor, NoStyle)>> ELSE <<>>)
             \o (IF showGhost
                 THEN <<piece("ghost", ghost, [dimColor |-> "true"])>>
                 ELSE <<>>)

\* what the component returns: decorated mode when a language is given
render(cfg) ==
    IF cfg.language # ""
    THEN [mode |-> "decorated", out |-> decorated(cfg)]
    ELSE [mode |-> "plain", out |-> displayValue(cfg)]

----------------------------------------------------------------------------
(* History *)

NoCalls == [onChange |-> <<>>, onSubmit |-> <<>>, onSuggestionAccept |-> <<>>]

NoRun == [from |-> 0, count |-> 0]

Event(kind, input, handled) ==
    [kind |-> kind, input |-> input, handled |-> handled,
     value |-> value, cursorOffset |-> cursorOffset,
     cursorWidth |-> cursorWidth, lefts |-> leftRun]

\* a left arrow extends the run of left arrows it follows; the count
\* saturates above every cursor position the model reaches
NextRun ==
    IF leftRun.count > 0
    THEN [leftRun EXCEPT !.count = Min(leftRun.count + 1, MaxLen + 2)]
    ELSE [from |-> cursorOffset, count |-> 1]

----------------------------------------------------------------------------
(* Initial state: useState({cursorOffset: value.length, cursorWidth: 0})   *)
(* followed by the effect of the first render, which leaves it as it is.   *)

SegIdle == [value |-> <<>>, cursorOffset |-> 0, decorations |-> <<>>,
            showCursor |-> TRUE]

\* no mergeDecorationStyles call made, no frame rendered
NotMerged == [pending |-> "true"]

NoFrame == [mode |-> "none", out |-> <<>>]

DefaultConfig == [placeholder |-> <<>>, mask |-> <<>>,
                  highlightPastedText |-> FALSE, language |-> "",
                  decorations |-> <<>>]

PureIdle ==
    /\ segIn = SegIdle
    /\ segCalled = FALSE
    /\ segments = <<>>
    /\ mergeIn = <<>>
    /\ mergeOut = NotMerged
    /\ renderCfg = DefaultConfig
    /\ frame = NoFrame

Init ==
    /\ value \in Values
    /\ cursorOffset = Len(value)
    /\ cursorWidth = 0
    /\ focus \in BOOLEAN
    /\ showCursor \in BOOLEAN
    /\ provider \in Providers
    /\ fired = NoCalls
    /\ last = [kind |-> "mount", input |-> <<>>, handled |-> FALSE,
               value |-> value, cursorOffset |-> Len(value),
               cursorWidth |-> 0, lefts |-> NoRun]
    /\ leftRun = NoRun
    /\ outOfBand = FALSE
    /\ PureIdle

----------------------------------------------------------------------------
(* Key events *)

\* faulty variant of Commit: onChange is called whether or not the value
\* differs
CommitAlwaysNotifies(r, kind, input) ==
    LET state == [cursorOffset |-> clamp(r.nextCursorOffset, cursorOffset,
                                         value),
                  cursorWidth |-> r.nextCursorWidth]
        settled == useEffect(state, r.nextValue, focus, showCursor)
    IN  /\ value' = r.nextValue
        /\ cursorOffset' = settled.cursorOffset
        /\ cursorWidth' = settled.cursorWidth
        /\ fired' = [onChange |-> <<r.nextValue>>,
                     onSubmit |-> <<>>,
                     onSuggestionAccept |-> r.accepted]
        /\ last' = Event(kind, input, TRUE)
        /\ UNCHANGED <<focus, showCursor, provider, outOfBand, pureVars>>

\* setState({cursorOffset, cursorWidth}), then onChange(nextValue) when the
\* value differs: the caller stores it (onChange = setValue), the widget
\* re-renders and, value being a dependency of the effect, the effect runs
Commit(r, kind, input) ==
    LET state == [cursorOffset |-> clamp(r.nextCursorOffset, cursorOffset,
                                         value),
                  cursorWidth |-> r.nextCursorWidth]
        changed == r.nextValue # value
        settled == IF changed
                   THEN useEffect(state, r.nextValue, focus, showCursor)
                   ELSE state
    IN  /\ value' = r.nextValue
        /\ cursorOffset' = settled.cursorOffset
        /\ cursorWidth' = settled.cursorWidth
        /\ fired' = [onChange |-> IF changed THEN <<r.nextValue>> ELSE <<>>,
                     onSubmit |-> <<>>,
                     onSuggestionAccept |-> r.accepted]
        /\ last' = Event(kind, input, TRUE)
        /\ UNCHANGED <<focus, showCursor, provider, outOfBand, pureVars>>

\* faulty variant of IgnoredKey: no early return, the handler goes on to
\* setState with its untouched locals
IgnoredKeyFallsThrough(kind) ==
    /\ focus
    /\ kind \in ignoredKeys
    /\ Commit(locals(cursorOffset, value), kind, <<>>)
    /\ leftRun' = NoRun

IgnoredKey(kind) ==
    /\ focus
    /\ kind \in ignoredKeys
    /\ fired' = NoCalls
    /\ last' = Event(kind, <<>>, TRUE)
    /\ leftRun' = NoRun
    /\ UNCHANGED <<value, cursorOffset, cursorWidth, focus, showCursor,
                   provider, outOfBand, pureVars>>

\* faulty variant of Return: no early return after onSubmit, the handler
\* goes on to setState with its untouched locals
ReturnFallsThrough ==
    /\ focus
    /\ value' = value
    /\ cursorOffset' = clamp(cursorOffset, cursorOffset, value)
    /\ cursorWidth' = 0
    /\ fired' = [NoCalls EXCEPT !.onSubmit = <<value>>]
    /\ last' = Event("return", <<>>, TRUE)
    /\ leftRun' = NoRun
    /\ UNCHANGED <<focus, showCursor, provider, outOfBand, pureVars>>

Return ==
    /\ focus
    /\ fired' = [NoCalls EXCEPT !.onSubmit = <<value>>]
    /\ last' = Event("return", <<>>, TRUE)
    /\ leftRun' = NoRun
    /\ UNCHANGED <<value, cursorOffset, cursorWidth, focus, showCursor,
                   provider, outOfBand, pureVars>>

LeftArrow ==
    /\ focus
    /\ Commit(leftArrow(cursorOffset, value, showCursor), "leftArrow", <<>>)
    /\ leftRun' = NextRun

RightArrow ==
    /\ focus
    /\ Commit(rightArrow(cursorOffset, value, showCursor, provider),
              "rightArrow", <<>>)
    /\ leftRun' = NoRun

Backspace(kind) ==
    /\ focus
    /\ kind \in {"backspace", "delete"}
    /\ Commit(backspace(cursorOffset, value), kind, <<>>)
    /\ leftRun' = NoRun

Insert(input) ==
    /\ focus
    /\ Len(value) + Len(input) <= MaxLen
    /\ Commit(insert(cursorOffset, value, input), "input", input)
    /\ leftRun' = NoRun

\* faulty variant of InactiveKey: the handler runs without focus and takes
\* the key for a backspace
InactiveKeyHandled(kind) ==
    LET r == backspace(cursorOffset, value)
    IN  /\ ~focus
        /\ value' = r.nextValue
        /\ cursorOffset' = clamp(r.nextCursorOffset, cursorOffset, value)
        /\ cursorWidth' = r.nextCursorWidth
        /\ fired' = [NoCalls EXCEPT !.onChange =
                        IF r.nextValue # value THEN <<r.nextValue>> ELSE <<>>]
        /\ last' = Event(kind, <<>>, FALSE)
        /\ leftRun' = NoRun
        /\ UNCHANGED <<focus, showCursor, provider, outOfBand, pureVars>>

\* useInput(handler, {isActive: focus}): without focus no handler runs
InactiveKey(kind) ==
    /\ ~focus
    /\ fired' = NoCalls
    /\ last' = Event(kind, <<>>, FALSE)
    /\ leftRun' = NoRun
    /\ UNCHANGED <<value, cursorOffset, cursorWidth, focus, showCursor,
                   provider, outOfBand, pureVars>>

----------------------------------------------------------------------------
(* The caller *)

\* the caller replaces the value out of band (e.g. setValue('') on submit):
\* the widget re-renders and the effect runs
SetValue(v) ==
    LET settled == useEffect([cursorOffset |-> cursorOffset,
                              cursorWidth |-> cursorWidth],
                             v, focus, showCursor)
    IN  /\ v # value
        /\ value' = v
        /\ cursorOffset' = settled.cursorOffset
        /\ cursorWidth' = settled.cursorWidth
        /\ fired' = NoCalls
        /\ last' = Event("setValue", <<>>, FALSE)
        /\ leftRun' = NoRun
        /\ outOfBand' = TRUE
        /\ UNCHANGED <<focus, showCursor, provider, pureVars>>

\* the caller routes input to or away from the widget: focus is a
\* dependency of the effect
SetFocus ==
    LET settled == useEffect([cursorOffset |-> cursorOffset,
                              cursorWidth |-> cursorWidth],
                             value, ~focus, showCursor)
    IN  /\ focus' = ~focus
        /\ cursorOffset' = settled.cursorOffset
        /\ cursorWidth' = settled.cursorWidth
        /\ fired' = NoCalls
        /\ last' = Event("focus", <<>>, FALSE)
        /\ leftRun' = NoRun
        /\ UNCHANGED <<value, showCursor, provider, outOfBand, pureVars>>

KeyKinds == ignoredKeys \cup
            {"return", "leftArrow", "rightArrow", "backspace", "delete",
             "input"}

Next ==
    \/ \E kind \in ignoredKeys : IgnoredKey(kind)
    \/ Return
    \/ LeftArrow
    \/ RightArrow
    \/ \E kind \in {"backspace", "delete"} : Backspace(kind)
    \/ \E input \in Inputs : Insert(input)
    \/ \E kind \in KeyKinds : InactiveKey(kind)
    \/ \E v \in SetValues : SetValue(v)
    \/ SetFocus

Spec == Init /\ [][Next]_vars

----------------------------------------------------------------------------
(* Back-to-back key events.  The handler is a closure over the cursorOffset *)
(* and originalValue of the render that created it, and setState is given   *)
(* an object computed from them.  A key that arrives before the handler of  *)
(* the next render is registered is handled by the closure of the previous  *)
(* event: last.value and last.cursorOffset.                                 *)

editKinds == {"leftArrow", "rightArrow", "backspace", "delete", "input"}

\* the stale closure runs: setState replaces the state, onChange is called
\* when nextValue differs from the closure's originalValue, and the effect
\* runs once the renders settle if the value has changed since it last ran
StaleCommit(r, kind, input) ==
    LET state == [cursorOffset |-> clamp(r.nextCursorOffset,
                                         last.cursorOffset, last.value),
                  cursorWidth |-> r.nextCursorWidth]
        changed == r.nextValue # last.value
        stored == IF changed THEN r.nextValue ELSE value
        settled == IF stored # last.value
                   THEN useEffect(state, stored, focus, showCursor)
                   ELSE state
    IN  /\ focus
        /\ last.handled
        /\ last.kind \in editKinds
        /\ value' = stored
        /\ cursorOffset' = settled.cursorOffset
        /\ cursorWidth' = settled.cursorWidth
        /\ fired' = [onChange |-> IF changed THEN <<r.nextValue>> ELSE <<>>,
                     onSubmit |-> <<>>,
                     onSuggestionAccept |-> r.accepted]
        /\ last' = [kind |-> kind, input |-> input, handled |-> TRUE,
                    value |-> last.value, cursorOffset |-> last.cursorOffset,
                    cursorWidth |-> last.cursorWidth, lefts |-> NoRun]
        /\ leftRun' = NoRun
        /\ UNCHANGED <<focus, showCursor, provider, outOfBand, pureVars>>

StaleLeftArrow ==
    StaleCommit(leftArrow(last.cursorOffset, last.value, showCursor),
                "leftArrow", <<>>)

StaleRightArrow ==
    StaleCommit(rightArrow(last.cursorOffset, last.value, showCursor,
                           provider),
                "rightArrow", <<>>)

StaleBackspace(kind) ==
    /\ kind \in {"backspace", "delete"}
    /\ StaleCommit(backspace(last.cursorOffset, last.value), kind, <<>>)

StaleInsert(input) ==
    /\ Len(last.value) + Len(input) <= MaxLen
    /\ StaleCommit(insert(last.cursorOffset, last.value, input),
                   "input", input)

NextBurst ==
    \/ Next
    \/ StaleLeftArrow
    \/ StaleRightArrow
    \/ \E kind \in {"backspace", "delete"} : StaleBackspace(kind)
    \/ \E input \in Inputs : StaleInsert(input)

SpecBurst == Init /\ [][NextBurst]_vars

----------------------------------------------------------------------------
(* createSegments on its own: every argument drawn from a bounded set *)

SegText == <<"a", "b", "c", "d", "e", "f">>

SegValues == {SubSeq(SegText, 1, n) : n \in 0..SegMaxLen}

SegPositions == (0 - 1)..(SegMaxLen + 1)

SegStyles == {"error", "highlight"}

Decorations == [start : SegPositions, end : SegPositions, style : SegStyles]

DecorationLists ==
    {<<>>} \cup {<<d>> : d \in Decorations}
           \cup {<<d, e>> : d \in Decorations, e \in Decorations}

InitSeg ==
    /\ value = <<>>
    /\ cursorOffset = 0
    /\ cursorWidth = 0
    /\ focus = TRUE
    /\ showCursor = TRUE
    /\ provider = "none"
    /\ fired = NoCalls
    /\ last = [kind |-> "mount", input |-> <<>>, handled |-> FALSE,
               value |-> <<>>, cursorOffset |-> 0,
               cursorWidth |-> 0, lefts |-> NoRun]
    /\ leftRun = NoRun
    /\ outOfBand = FALSE
    /\ segIn \in [value : SegValues, cursorOffset : SegPositions,
                  decorations : DecorationLists, showCursor : BOOLEAN]
    /\ segCalled = FALSE
    /\ segments = <<>>
    /\ mergeIn = <<>>
    /\ mergeOut = NotMerged
    /\ renderCfg = DefaultConfig
    /\ frame = NoFrame

CallCreateSegments ==
    /\ ~segCalled
    /\ segCalled' = TRUE
    /\ segments' = createSegments(segIn.value, segIn.cursorOffset,
                                  segIn.decorations, segIn.showCursor)
    /\ UNCHANGED <<segIn, editorVars, mergeVars, renderVars>>

NextSeg == CallCreateSegments

SpecSeg == InitSeg /\ [][NextSeg]_vars

----------------------------------------------------------------------------
(* mergeDecorationStyles on its own: lists of up to three decorations *)

MergeStyles == DOMAIN decorationStyles

MergeDecorations == [start : {0}, end : {2}, style : MergeStyles]

MergeLists ==
    {<<>>} \cup {<<d>> : d \in MergeDecorations}
           \cup {<<d, e>> : d \in MergeDecorations, e \in MergeDecorations}
           \cup {<<d, e, f>> : d \in MergeDecorations, e \in MergeDecorations,
                               f \in MergeDecorations}

InitMerge ==
    /\ value = <<>>
    /\ cursorOffset = 0
    /\ cursorWidth = 0
    /\ focus = TRUE
    /\ showCursor = TRUE
    /\ provider = "none"
    /\ fired = NoCalls
    /\ last = [kind |-> "mount", input |-> <<>>, handled |-> FALSE,
               value |-> <<>>, cursorOffset |-> 0,
               cursorWidth |-> 0, lefts |-> NoRun]
    /\ leftRun = NoRun
    /\ outOfBand = FALSE
    /\ segIn = SegIdle
    /\ segCalled = FALSE
    /\ segments = <<>>
    /\ mergeIn \in MergeLists
    /\ mergeOut = NotMerged
    /\ renderCfg = DefaultConfig
    /\ frame = NoFrame

CallMergeDecorationStyles ==
    /\ mergeOut = NotMerged
    /\ mergeOut' = mergeDecorationStyles(mergeIn)
    /\ UNCHANGED <<mergeIn, editorVars, segVars, renderVars>>

NextMerge == CallMergeDecorationStyles

SpecMerge == InitMerge /\ [][NextMerge]_vars

----------------------------------------------------------------------------
(* Rendering on its own: props and state drawn from bounded sets *)

RenderOffsets == (0 - 1)..(MaxLen + 1)

RenderWidths == {0} \cup 2..MaxInput

InitRender ==
    /\ value \in Values
    /\ cursorOffset \in RenderOffsets
    /\ cursorWidth \in RenderWidths
    /\ focus \in BOOLEAN
    /\ showCursor \in BOOLEAN
    /\ provider \in Providers
    /\ fired = NoCalls
    /\ last = [kind |-> "mount", input |-> <<>>, handled |-> FALSE,
               value |-> value, cursorOffset |-> cursorOffset,
               cursorWidth |-> cursorWidth, lefts |-> NoRun]
    /\ leftRun = NoRun
    /\ outOfBand = FALSE
    /\ segIn = SegIdle
    /\ segCalled = FALSE
    /\ segments = <<>>
    /\ mergeIn = <<>>
    /\ mergeOut = NotMerged
    /\ renderCfg \in RenderConfigs
    /\ frame = NoFrame

Render ==
    /\ frame = NoFrame
    /\ frame' = render(renderCfg)
    /\ UNCHANGED <<renderCfg, editorVars, segVars, mergeVars>>

NextRender == Render

SpecRender == InitRender /\ [][NextRender]_vars

----------------------------------------------------------------------------
(* Properties *)

deleteKeys == {"backspace", "delete"}

\* the suggestion the provider returned for the value the last event was
\* applied to
lastSuggestion == getSuggestion(provider, last.value)

lastSuggestionValid ==
    /\ Truthy(lastSuggestion)
    /\ StartsWith(lastSuggestion, last.value)
    /\ lastSuggestion # last.value

RECURSIVE concat(_, _)
\* the texts of segments i.. joined
concat(segs, i) ==
    IF i > Len(segs) THEN <<>> ELSE segs[i].text \o concat(segs, i + 1)

\* C1: as long as the value changed only through the widget's own edits,
\* the stored cursorOffset lies in [0, length(value)].
CursorClampInvariant ==
    ~outOfBand => (0 <= cursorOffset /\ cursorOffset <= Len(value))

\* C2: in a state reached by edit events, an insert of s reports
\* value[0..c) ++ s ++ value[c..), c being the cursor position: the stored
\* cursorOffset, which the claim places in [0, length(value)].
InsertSplicesAtCursor ==
    (last.kind = "input" /\ last.handled /\ ~outOfBand) =>
        LET v == last.value
            c == Max(0, Min(last.cursorOffset, Len(v)))
        IN  /\ value = SubSeq(v, 1, c) \o last.input \o SubSeq(v, c + 1, Len(v))
            /\ fired.onChange = <<value>>

\* C3: once the caller has replaced the value out of band and the recorded
\* cursorOffset exceeded length(newValue) - 1, then whenever a key event can
\* be processed cursorOffset = length(newValue) and pasteWidth = 0.
ReconcileAfterReplace ==
    (last.kind = "setValue" /\ focus /\ last.cursorOffset > Len(value) - 1) =>
        (cursorOffset = Len(value) /\ cursorWidth = 0)

\* C4: the segments of createSegments are non-empty spans that start at 0,
\* are contiguous, end at length(value), carry the text of their span, and
\* concatenate to value.
PartitionCompleteness ==
    segCalled =>
        LET val == segIn.value
            n == Len(segments)
        IN  /\ \A i \in 1..n :
                /\ segments[i].start < segments[i].end
                /\ 0 <= segments[i].start
                /\ segments[i].end <= Len(val)
                /\ segments[i].text =
                       SubSeq(val, segments[i].start + 1, segments[i].end)
            /\ \A i \in 1..(n - 1) : segments[i].end = segments[i + 1].start
            /\ (n > 0 => segments[1].start = 0 /\ segments[n].end = Len(val))
            /\ concat(segments, 1) = val

\* C4 witness: a call with the cursor left of the text, an inverted and an
\* overhanging decoration, that produced several segments.
PartitionWitness ==
    /\ segCalled
    /\ segIn.cursorOffset < 0
    /\ segIn.showCursor
    /\ Len(segIn.decorations) = 2
    /\ segIn.decorations[1].start > segIn.decorations[1].end
    /\ segIn.decorations[2].start < 0
    /\ segIn.decorations[2].end = 1
    /\ Len(segments) >= 2

\* C5: in a state reached by edit events, a delete key with cursorOffset
\* c > 0 removes exactly the character before the cursor and stores c - 1.
DeleteLeftRemovesOne ==
    (last.kind \in deleteKeys /\ last.handled /\ ~outOfBand
        /\ last.cursorOffset > 0) =>
        LET c == last.cursorOffset
            v == last.value
        IN  /\ Len(value) = Len(v) - 1
            /\ value = SubSeq(v, 1, c - 1) \o SubSeq(v, c + 1, Len(v))
            /\ cursorOffset = c - 1

\* the cursor the run of left arrows before the last event started from,
\* and the length of the run
runFrom == IF last.lefts.count > 0 THEN last.lefts.from ELSE last.cursorOffset

runCount == last.lefts.count

\* C6 as stated: a delete key at cursor 0 changes nothing, stores cursor 0
\* and fires no onChange; and a delete key after k left arrows from cursor
\* c, k >= c, leaves the value intact.
DeleteAtStartIsNoOp ==
    (last.kind \in deleteKeys /\ last.handled) =>
        /\ last.cursorOffset = 0 =>
              (value = last.value /\ cursorOffset = 0
                  /\ fired.onChange = <<>>)
        /\ runCount >= runFrom => value = last.value

\* C6 amended: the same, the left arrows being counted only when cursor
\* navigation is enabled (showCursor).
DeleteAtStartIsNoOpWithNavigation ==
    (last.kind \in deleteKeys /\ last.handled) =>
        /\ last.cursorOffset = 0 =>
              (value = last.value /\ cursorOffset = 0
                  /\ fired.onChange = <<>>)
        /\ (showCursor /\ runCount >= runFrom) => value = last.value

\* C6 witness: a delete key after at least as many left arrows as the
\* cursor was from the start of a two-character value.
DeleteAtStartWitness ==
    /\ last.kind \in deleteKeys
    /\ last.handled
    /\ showCursor
    /\ last.lefts.from >= 2
    /\ last.lefts.count >= last.lefts.from
    /\ last.cursorOffset = 0
    /\ Len(value) >= 2

\* C7: once an insert has been processed, pasteWidth is the length of the
\* inserted text if that is more than one character, and 0 otherwise.
PasteWidthAfterInsert ==
    (last.kind = "input" /\ last.handled) =>
        cursorWidth = (IF Len(last.input) > 1 THEN Len(last.input) ELSE 0)

\* C8 as stated: after every handled key event other than a
\* multi-character insert pasteWidth is 0.
PasteWidthResetByOthers ==
    (last.handled /\ ~(last.kind = "input" /\ Len(last.input) > 1)) =>
        cursorWidth = 0

\* C8 amended: after a left arrow, right arrow, delete key or
\* single-character insert pasteWidth is 0; return and the ignored keys
\* leave pasteWidth as it was.
PasteWidthResetByEdits ==
    last.handled =>
        /\ (last.kind \in {"leftArrow", "rightArrow"} \cup deleteKeys
              \/ (last.kind = "input" /\ Len(last.input) = 1))
            => cursorWidth = 0
        /\ (last.kind = "return" \/ last.kind \in ignoredKeys)
            => cursorWidth = last.cursorWidth

\* C8 witness: a left arrow pressed while a pasted block was highlighted.
PasteWidthResetWitness ==
    /\ last.kind = "leftArrow"
    /\ last.handled
    /\ last.cursorWidth > 1
    /\ cursorWidth = 0

\* C9: a right arrow at the end of the value, the provider returning a
\* valid suggestion, makes the suggestion the value, puts the cursor at its
\* end, and fires onSuggestionAccept and onChange once each with it.
AcceptSuggestionOnRightArrow ==
    (last.kind = "rightArrow" /\ last.handled
        /\ last.cursorOffset = Len(last.value) /\ lastSuggestionValid) =>
        /\ value = lastSuggestion
        /\ cursorOffset = Len(lastSuggestion)
        /\ fired.onSuggestionAccept = <<lastSuggestion>>
        /\ fired.onChange = <<lastSuggestion>>

\* C10: a right arrow pressed while ghost text was displayed after a
\* non-empty value (where every rendering mode displays it) makes the
\* suggestion the value.
RightArrowAcceptsGhostText ==
    (last.kind = "rightArrow" /\ last.handled /\ Len(last.value) > 0
        /\ ghostText(last.value, last.cursorOffset, TRUE, provider) # <<>>) =>
        value = lastSuggestion

\* what the provider returns for the current value, and the ghost text of
\* the current render
suggestionNow == getSuggestion(provider, value)

ghostNow == ghostText(value, cursorOffset, focus, provider)

\* C11: ghost text is non-empty only if the returned suggestion starts with
\* the value and is strictly longer, and then value ++ ghostText is the
\* suggestion; an absent, empty, equal or unprefixed suggestion gives no
\* ghost text.
SuggestionPrefixLaw ==
    /\ ghostNow # <<>> =>
          /\ suggestionNow # Undefined
          /\ StartsWith(suggestionNow, value)
          /\ Len(suggestionNow) > Len(value)
          /\ value \o ghostNow = suggestionNow
    /\ (\/ suggestionNow = Undefined
        \/ suggestionNow = <<>>
        \/ suggestionNow = value
        \/ ~StartsWith(suggestionNow, value)) => ghostNow = <<>>

\* C11 witness: typing has produced a value the provider extends.
SuggestionPrefixWitness ==
    /\ last.kind = "input"
    /\ last.handled
    /\ Len(value) > 0
    /\ ghostNow # <<>>
    /\ value \o ghostNow = suggestionNow

\* the rendered frame shows ghost text
ghostDisplayed ==
    IF frame.mode = "decorated"
    THEN \E i \in 1..Len(frame.out) : frame.out[i].kind = "ghost"
    ELSE \E i \in 1..Len(frame.out) : frame.out[i].style = "dim"

\* C12: whatever the rendering props, ghost text is displayed only when
\* cursorOffset = length(value) and the widget has focus.
GhostOnlyAtEndWithFocus ==
    (frame # NoFrame /\ ghostDisplayed) =>
        (cursorOffset = Len(value) /\ focus)

\* C12 witness: a focused plain-mode render with the cursor inside a value
\* the provider has a valid suggestion for, showing no ghost text.
GhostOnlyAtEndWitness ==
    /\ frame.mode = "plain"
    /\ focus
    /\ 0 <= cursorOffset
    /\ cursorOffset < Len(value)
    /\ ghostText(value, Len(value), TRUE, provider) # <<>>
    /\ ~ghostDisplayed

\* the clamped decorations of the createSegments call
segClamped == clampedDecorations(segIn.value, segIn.decorations)

\* a list without its j-th element
without(list, j) == SubSeq(list, 1, j - 1) \o SubSeq(list, j + 1, Len(list))

\* the sequence s has an element equal to d
has(s, d) == \E k \in 1..Len(s) : s[k] = d

\* C13: a decoration whose clamped range is empty or inverted (start >= end)
\* adds no split point and is in the decorations list of no segment that
\* createSegments returns.
EmptyDecorationDropped ==
    segCalled =>
        \A j \in 1..Len(segClamped) :
            segClamped[j].start >= segClamped[j].end =>
                /\ splitPoints(segIn.value, segIn.cursorOffset,
                               segIn.decorations, segIn.showCursor)
                   = splitPoints(segIn.value, segIn.cursorOffset,
                                 without(segIn.decorations, j),
                                 segIn.showCursor)
                /\ \A i \in 1..Len(segments) :
                       ~has(segments[i].decorations, segClamped[j])

\* the decoration d covers the whole segment seg
covers(d, seg) == d.start <= seg.start /\ seg.end <= d.end

\* C14: every decoration attached to a segment covers the whole segment, a
\* decoration that only touches a segment's edge is not attached to it, a
\* decoration with a non-empty clamped range is attached to exactly the
\* segments inside its range, and with showCursor the only segment that
\* contains cursorOffset is the one-character cursor segment.
NoSegmentStraddles ==
    segCalled =>
        /\ \A i \in 1..Len(segments) :
               \A k \in 1..Len(segments[i].decorations) :
                   covers(segments[i].decorations[k], segments[i])
        /\ \A i \in 1..Len(segments) : \A j \in 1..Len(segClamped) :
               (\/ segClamped[j].end <= segments[i].start
                \/ segClamped[j].start >= segments[i].end)
                   => ~has(segments[i].decorations, segClamped[j])
        /\ \A i \in 1..Len(segments) : \A j \in 1..Len(segClamped) :
               segClamped[j].start < segClamped[j].end =>
                   (has(segments[i].decorations, segClamped[j])
                       <=> covers(segClamped[j], segments[i]))
        /\ segIn.showCursor =>
               \A i \in 1..Len(segments) :
                   (/\ segments[i].start <= segIn.cursorOffset
                    /\ segIn.cursorOffset < segments[i].end)
                       => /\ segments[i].end = segments[i].start + 1
                          /\ segments[i].isCursor

\* the attributes the preset of the j-th merged decoration defines
presetOf(j) == decorationStyles[mergeIn[j].style]

\* C15: each attribute of the merged style has the value given by the
\* highest-indexed decoration whose preset defines it, attributes defined only
\* by earlier decorations are kept (error then highlight: red, underline,
\* yellow background), and an empty list has no merged style.
MergeIsLastWriteWins ==
    mergeOut # NotMerged =>
        IF Len(mergeIn) = 0
        THEN mergeOut = NoStyle
        ELSE /\ DOMAIN mergeOut
                  = UNION {DOMAIN presetOf(j) : j \in 1..Len(mergeIn)}
             /\ \A a \in DOMAIN mergeOut :
                    LET defining == {j \in 1..Len(mergeIn) :
                                        a \in DOMAIN presetOf(j)}
                        top == CHOOSE j \in defining :
                                   \A k \in defining : k <= j
                    IN  mergeOut[a] = presetOf(top)[a]
             /\ (/\ Len(mergeIn) = 2
                 /\ mergeIn[1].style = "error"
                 /\ mergeIn[2].style = "highlight")
                    => mergeOut = [color |-> "red", underline |-> "true",
                                   backgroundColor |-> "yellow"]

\* C15 witness: error then warning merged, the colour being the later one
\* and the underline kept.
MergeWitness ==
    /\ Len(mergeIn) = 2
    /\ mergeIn[1].style = "error"
    /\ mergeIn[2].style = "warning"
    /\ mergeOut = [color |-> "yellow", underline |-> "true"]

\* C16: the return key leaves value, cursorOffset and cursorWidth unchanged,
\* fires onSubmit exactly once with the unmasked value, and fires neither
\* onChange nor onSuggestionAccept.
SubmitLeavesState ==
    (last.kind = "return" /\ last.handled) =>
        /\ value = last.value
        /\ cursorOffset = last.cursorOffset
        /\ cursorWidth = last.cursorWidth
        /\ fired.onSubmit = <<last.value>>
        /\ fired.onChange = <<>>
        /\ fired.onSuggestionAccept = <<>>

\* C16 witness: return pressed on a non-empty value with a pasted span
\* still highlighted.
SubmitWitness ==
    /\ last.kind = "return"
    /\ last.handled
    /\ Len(value) > 0
    /\ cursorWidth > 1
    /\ fired.onSubmit = <<value>>

\* C17: up arrow, down arrow, Ctrl+C, Tab and Shift+Tab leave value,
\* cursorOffset and cursorWidth unchanged and fire no notification.
IgnoredKeysChangeNothing ==
    (last.kind \in ignoredKeys /\ last.handled) =>
        /\ value = last.value
        /\ cursorOffset = last.cursorOffset
        /\ cursorWidth = last.cursorWidth
        /\ fired = NoCalls

\* C17 witness: Tab pressed while a pasted span is highlighted.
IgnoredKeysWitness ==
    /\ last.kind = "tab"
    /\ last.handled
    /\ Len(value) > 0
    /\ cursorWidth > 1

\* C18: without focus no key event of any kind changes value, cursorOffset
\* or cursorWidth, and none fires onChange, onSubmit or onSuggestionAccept.
UnfocusedReactsToNothing ==
    (last.kind \in KeyKinds /\ ~last.handled) =>
        /\ ~focus
        /\ value = last.value
        /\ cursorOffset = last.cursorOffset
        /\ cursorWidth = last.cursorWidth
        /\ fired = NoCalls

\* C18 witness: a backspace arrives without focus on a non-empty value with
\* the cursor after its first character.
UnfocusedWitness ==
    /\ last.kind = "backspace"
    /\ ~last.handled
    /\ ~focus
    /\ Len(value) > 0
    /\ cursorOffset > 0

\* C19: for every handled event onChange is fired exactly when the resulting
\* value differs from the value the event was applied to, and onChange,
\* onSubmit and onSuggestionAccept are each fired at most once.
ChangeNotifiedIffChanged ==
    last.handled =>
        /\ (fired.onChange # <<>>) <=> (value # last.value)
        /\ fired.onChange # <<>> => fired.onChange = <<value>>
        /\ Len(fired.onChange) <= 1
        /\ Len(fired.onSubmit) <= 1
        /\ Len(fired.onSuggestionAccept) <= 1

\* C19 witness: a right arrow that moved the cursor inside the value and
\* fired nothing.
ChangeNotifiedWitness ==
    /\ last.kind = "rightArrow"
    /\ last.handled
    /\ value = last.value
    /\ cursorOffset = last.cursorOffset + 1
    /\ cursorOffset <= Len(value)
    /\ fired = NoCalls

\* C21: every handled event is applied to the value and cursorOffset that the
\* previous event produced, never to the state an earlier event started
\* from.
EventsAppliedInOrder ==
    [][last'.handled =>
          (last'.value = value /\ last'.cursorOffset = cursorOffset)]_vars

\* a plain-mode frame of a non-empty value with the cursor shown and focused
plainCursorFrame ==
    /\ frame.mode = "plain"
    /\ showCursor
    /\ focus
    /\ Len(value) > 0

\* the extra width of the highlight: cursorWidth with highlightPastedText
extraWidth == IF renderCfg.highlightPastedText THEN cursorWidth ELSE 0

inverseSpace == [char |-> " ", style |-> "inverse"]

\* C22: in plain mode with the cursor shown and focused, the character at
\* index i of a non-empty value is inverse exactly when
\* cursorOffset - extraWidth <= i <= cursorOffset, and with the cursor at the
\* end exactly one inverse space follows the value.
PlainCursorHighlight ==
    plainCursorFrame =>
        /\ Len(frame.out) >= Len(value)
        /\ \A i \in 0..(Len(value) - 1) :
               (frame.out[i + 1].style = "inverse")
                   <=> (cursorOffset - extraWidth <= i /\ i <= cursorOffset)
        /\ cursorOffset = Len(value) =>
               /\ Len(frame.out) > Len(value)
               /\ frame.out[Len(value) + 1] = inverseSpace
               /\ \A k \in (Len(value) + 2)..Len(frame.out) :
                      frame.out[k] # inverseSpace

\* C22 witness: a two-character paste before the last character, the cursor
\* on that character, all three characters inverse.
PlainCursorWitness ==
    /\ plainCursorFrame
    /\ renderCfg.highlightPastedText
    /\ Len(value) = 3
    /\ cursorOffset = 2
    /\ cursorWidth = 2
    /\ \A k \in 1..3 : frame.out[k].style = "inverse"

\* C23: in every state reached by key events alone, after text is inserted
\* the cursorOffset is the offset before the insert plus the length of the
\* inserted text.
CursorAfterInsertedText ==
    (last.kind = "input" /\ last.handled /\ ~outOfBand) =>
        cursorOffset = last.cursorOffset + Len(last.input)

\* the cursor segments of the createSegments call
cursorSegments == {i \in 1..Len(segments) : segments[i].isCursor}

\* C24: createSegments marks at most one segment as the cursor segment;
\* exactly one exists exactly when showCursor holds and
\* 0 <= cursorOffset < length(value), it spans cursorOffset to
\* cursorOffset + 1 with a one-character text, and none is marked when the
\* cursor is at the end or showCursor is false.
OneCursorSegment ==
    segCalled =>
        /\ Cardinality(cursorSegments) <= 1
        /\ (Cardinality(cursorSegments) = 1)
               <=> (/\ segIn.showCursor
                    /\ 0 <= segIn.cursorOffset
                    /\ segIn.cursorOffset < Len(segIn.value))
        /\ \A i \in cursorSegments :
               /\ segments[i].start = segIn.cursorOffset
               /\ segments[i].end = segIn.cursorOffset + 1
               /\ Len(segments[i].text) = 1
        /\ (segIn.cursorOffset = Len(segIn.value) \/ ~segIn.showCursor)
               => cursorSegments = {}

\* C24 witness: the cursor on the second character, inside a decoration.
OneCursorWitness ==
    /\ segCalled
    /\ segIn.showCursor
    /\ segIn.cursorOffset = 1
    /\ Len(segIn.value) = 2
    /\ Len(segIn.decorations) = 1
    /\ \E i \in cursorSegments : Len(segments[i].decorations) = 1

\* C25: any two adjacent segments differ in their isCursor flag or in their
\* list of attached decorations.
SegmentsMinimal ==
    segCalled =>
        \A i \in 1..(Len(segments) - 1) :
            \/ segments[i].isCursor # segments[i + 1].isCursor
            \/ segments[i].decorations # segments[i + 1].decorations

\* C25 witness: two segments split by a decoration boundary alone.
SegmentsMinimalWitness ==
    /\ segCalled
    /\ ~segIn.showCursor
    /\ Len(segments) = 2
    /\ segments[1].decorations # <<>>
    /\ segments[2].decorations = <<>>

RECURSIVE flat(_, _)
\* the characters of the pieces from the i-th on, each with its styling
flat(pieces, i) ==
    IF i > Len(pieces) THEN <<>>
    ELSE [k \in 1..Len(pieces[i].text) |->
             [char |-> pieces[i].text[k], props |-> pieces[i].props]]
         \o flat(pieces, i + 1)

\* the rendering props with a language and no decorations
UndecoratedConfigs ==
    {cfg \in RenderConfigs : cfg.language # "" /\ cfg.decorations = <<>>}

\* C26: with no decorations and the cursor shown, for every non-empty value
\* and every cursorOffset reached by key events, the segment-based rendering
\* and the legacy three-way slice show the same characters in the same order
\* with the same inverse-video characters.
SegmentsMatchLegacySlices ==
    (showCursor /\ focus /\ Len(value) > 0 /\ ~outOfBand) =>
        \A cfg \in UndecoratedConfigs :
            flat(decorated(cfg), 1) = flat(legacyDecorated(cfg), 1)

\* the rendered output has an inverse-video character
showsCursor(out) ==
    IF out.mode = "decorated"
    THEN \E i \in 1..Len(out.out) :
             /\ out.out[i].props = [inverse |-> "true"]
             /\ out.out[i].text # <<>>
    ELSE \E i \in 1..Len(out.out) : out.out[i].style = "inverse"

\* C27: in every state reached by key events with focus and showCursor, the
\* rendered output has an inverse-video cell (the character at cursorOffset
\* or the space appended at the end), in plain and in decorated mode.
CursorAlwaysVisible ==
    (focus /\ showCursor /\ ~outOfBand) =>
        \A cfg \in RenderConfigs : showsCursor(render(cfg))

\* the caller has just replaced, with a shorter string, a value that had the
\* cursor at its end
shortened ==
    /\ last.kind = "setValue"
    /\ last.cursorOffset = Len(last.value)
    /\ Len(value) < Len(last.value)

\* C28: with showCursor false and focus, cursorOffset = length(value)
\* whenever a key event can arrive: after key events, and also after the
\* caller has replaced the value out of band with a shorter string.
CursorAtEndWithoutNavigation ==
    (~showCursor /\ focus /\ (~outOfBand \/ shortened)) =>
        cursorOffset = Len(value)

\* C29: in every state reached by key events, a one-character insert
\* immediately followed by a delete key restores the value and the
\* cursorOffset that held before the insert.
InsertThenDeleteRestores ==
    [][(/\ last.kind = "input"
        /\ last.handled
        /\ Len(last.input) = 1
        /\ ~outOfBand
        /\ last'.kind \in deleteKeys
        /\ last'.handled)
          => (value' = last.value /\ cursorOffset' = last.cursorOffset)]_vars

====
